---- MODULE Spec2Model ----
(***************************************************************************)
(* A model of the study-planner backend: the Cosmos DB / in-memory data    *)
(* layer (db.js), the planning engine (planningEngine.js) and the Express  *)
(* route handlers (server.js).                                             *)
(*                                                                         *)
(* Dates are day numbers (the code compares 'YYYY-MM-DD' strings, whose    *)
(* order is the order of the days); 0 stands for null/undefined dates.     *)
(* Every Cosmos DB call may throw; the data layer's catch blocks are       *)
(* modelled by the fault arguments of its operators.                      *)
(***************************************************************************)
EXTENDS Integers, Sequences, FiniteSets, TLC

\* ------------------------------------------------------------------ bounds
MaxReqs == 2      \* requests explored under Spec
MaxPlanReqs == 3  \* requests explored under SpecPlan
MaxPlanFaultReqs == 2 \* requests explored under SpecPlanFaults
MaxUserReqs == 4  \* requests explored under SpecUsers
MaxGenReqs == 2   \* requests explored under SpecGenerate
MaxCalls == 2     \* data-layer calls explored under SpecData
MaxApplications == 1 \* calls of applySpacedRepetition explored under SpecRepetition
MaxExamDay == 17  \* the last day an exam or a task is dated on under SpecRepetition
MaxTasks == 2     \* the length of the task lists given to applySpacedRepetition
MaxReadCalls == 2 \* calls of the data layer explored under SpecReads
MaxOverlap == 2   \* executions of ensureOptimalPlan that can overlap under SpecOverlap
MaxOverlapReqs == 3 \* requests and calls of ensureOptimalPlan explored under SpecOverlap
MaxParses == 1    \* calls of parseGeminiJson explored under SpecParse
MaxLen == 5       \* the length of the texts given to parseGeminiJson, fences apart
MaxGeminiCalls == 1 \* calls of callGeminiWithRetry explored under SpecGemini
MaxDay == 2

\* ------------------------------------------------------------------ values
Null == "null"
Undefined == "undefined"
Emails == {"demo", "a"}
Moods == {"fresh", "tired"}
ContainerOrder == <<"users", "onboarding", "tasks", "quizResults">>

VARIABLES
    today,        \* new Date().toISOString().split('T')[0]
    containers,   \* which of usersContainer, onboardingContainer, ... are set
    cosmos,       \* the documents held by the Cosmos DB containers
    memoryStore,  \* the in-memory fallback storage
    nextId,       \* source of the unique ids (Date.now() + Math.random())
    reqs,         \* number of requests handled so far
    last,         \* the last request: its inputs and its response
    replans,      \* per user: the LLM calls ensureOptimalPlan made today since the
                  \* user's set of plans last changed
    gemini,       \* the running callGeminiWithRetry: its locals and how it ended
    runs,         \* the executions of ensureOptimalPlan that run step by step: where
                  \* each one stands (the await it is suspended at) and its locals
    cfg           \* the environment of the run, fixed from the start: the clients
                  \* (their Authorization headers), the emails that sign up, whether
                  \* Cosmos DB calls can throw, and the number of requests explored
                  \* (and, for a function checked on its own, its arguments)

vars ==
    <<today, containers, cosmos, memoryStore, nextId, reqs, last, replans, gemini, runs,
      cfg>>

\* The data layer's state as one value, so that its functions are operators.
World == [containers |-> containers, cosmos |-> cosmos,
          memoryStore |-> memoryStore, nextId |-> nextId]

SetWorld(w) ==
    /\ containers' = w.containers
    /\ cosmos' = w.cosmos
    /\ memoryStore' = w.memoryStore
    /\ nextId' = w.nextId

\* ------------------------------------------------------------- sequences
RECURSIVE Reverse(_)
Reverse(s) == IF s = <<>> THEN <<>> ELSE Append(Reverse(Tail(s)), Head(s))

RECURSIVE IndexOfEmail(_, _, _)
\* users.findIndex(u => u.email === email): the first such index >= from, 0 if none
IndexOfEmail(s, email, from) ==
    IF from > Len(s) THEN 0
    ELSE IF s[from].email = email THEN from
    ELSE IndexOfEmail(s, email, from + 1)

RECURSIVE IndexOfItem(_, _, _, _)
\* findIndex(o => o.id === id && o.userEmail === userEmail), 0 if none
IndexOfItem(s, id, userEmail, from) ==
    IF from > Len(s) THEN 0
    ELSE IF s[from].id = id /\ s[from].userEmail = userEmail THEN from
    ELSE IndexOfItem(s, id, userEmail, from + 1)

\* { ...item, ...updates }
Merge(item, updates) ==
    [k \in DOMAIN item \cup DOMAIN updates |->
        IF k \in DOMAIN updates THEN updates[k] ELSE item[k]]

OfUser(s, userEmail) == SelectSeq(s, LAMBDA x : x.userEmail = userEmail)

Range(s) == {s[i] : i \in 1..Len(s)}

\* ------------------------------------------------------------ data layer
\* currentStreak and lastStreakDate are 0 while undefined (user.currentStreak || 0);
\* historyDefined: the record has a moodHistory array
NullUser == [id |-> 0, email |-> Null, lastMoodDate |-> 0, currentMood |-> Null,
             historyDefined |-> FALSE, moodHistory |-> <<>>,
             currentStreak |-> 0, lastStreakDate |-> 0]

\* memoryStore as the module initialises it: the demo user has no mood fields
DemoUser == [id |-> 1, email |-> "demo", lastMoodDate |-> 0, currentMood |-> Undefined,
            historyDefined |-> FALSE, moodHistory |-> <<>>,
            currentStreak |-> 0, lastStreakDate |-> 0]

InitialMemoryStore ==
    [users |-> <<DemoUser>>, onboarding |-> <<>>, tasks |-> <<>>, quizResults |-> <<>>]

EmptyCosmos ==
    [users |-> <<>>, onboarding |-> <<>>, tasks |-> <<>>, quizResults |-> <<>>]

\* initializeDatabase sets the containers in order and stops at the first error
InitializedContainers(n) == {ContainerOrder[i] : i \in 1..n}

\* The common shape of createUser, createOnboarding, saveQuizResult and of each
\* iteration of saveTasks: Cosmos create when the container is set, and on an
\* exception (or no container) the push to memoryStore.
CreateNoCatch(w, kind, item, fault) ==
    LET w1 == [w EXCEPT !.nextId = @ + 1]
    IN IF kind \in w.containers
       THEN IF fault
            THEN [w |-> w1, ret |-> item, threw |-> TRUE, where |-> "none"]
            ELSE [w |-> [w1 EXCEPT !.cosmos[kind] = Append(@, item)],
                  ret |-> item, threw |-> FALSE, where |-> "cosmos"]
       ELSE [w |-> [w1 EXCEPT !.memoryStore[kind] = Append(@, item)],
             ret |-> item, threw |-> FALSE, where |-> "memory"]

Create(w, kind, item, fault) ==
    LET w1 == [w EXCEPT !.nextId = @ + 1]
    IN IF kind \in w.containers /\ ~fault
       THEN [w |-> [w1 EXCEPT !.cosmos[kind] = Append(@, item)],
             ret |-> item, threw |-> FALSE, where |-> "cosmos"]
       ELSE [w |-> [w1 EXCEPT !.memoryStore[kind] = Append(@, item)],
             ret |-> item, threw |-> FALSE, where |-> "memory"]

createUser(w, email, fault) ==
    Create(w, "users",
           [id |-> w.nextId, email |-> email, lastMoodDate |-> 0, currentMood |-> Null,
            historyDefined |-> TRUE, moodHistory |-> <<>>,
            currentStreak |-> 0, lastStreakDate |-> 0],
           fault)

\* returns the user (NullUser for null) and the store the object lives in
getUserByEmail(w, email, fault) ==
    LET c == IndexOfEmail(w.cosmos.users, email, 1)
        m == IndexOfEmail(w.memoryStore.users, email, 1)
    IN IF "users" \in w.containers /\ ~fault /\ c # 0
       THEN [user |-> w.cosmos.users[c], from |-> "cosmos", index |-> c]
       ELSE IF m # 0
            THEN [user |-> w.memoryStore.users[m], from |-> "memory", index |-> m]
            ELSE [user |-> NullUser, from |-> "none", index |-> 0]

\* returns the world and whether a record was updated (null otherwise)
updateUser(w, email, updates, fault) ==
    LET c == IndexOfEmail(w.cosmos.users, email, 1)
        m == IndexOfEmail(w.memoryStore.users, email, 1)
    IN IF "users" \in w.containers /\ ~fault /\ c # 0
       THEN [w |-> [w EXCEPT !.cosmos.users[c] = Merge(@, updates)], updated |-> "cosmos"]
       ELSE IF m # 0
            THEN [w |-> [w EXCEPT !.memoryStore.users[m] = Merge(@, updates)],
                  updated |-> "memory"]
            ELSE [w |-> w, updated |-> "none"]

\* A plan: onboardingData is kept as its fields mode, examDate (0: none) and
\* subject (level || skill)
createOnboarding(w, userEmail, mode, subject, examDate, lastReplanned, fault) ==
    Create(w, "onboarding",
           [id |-> w.nextId, userEmail |-> userEmail, mode |-> mode, subject |-> subject,
            examDate |-> examDate, lastReplanned |-> lastReplanned],
           fault)

\* Cosmos: ORDER BY c.createdAt DESC; memory: insertion order
getOnboarding(w, userEmail, fault) ==
    IF "onboarding" \in w.containers /\ ~fault
    THEN Reverse(OfUser(w.cosmos.onboarding, userEmail))
    ELSE OfUser(w.memoryStore.onboarding, userEmail)

updateOnboarding(w, onboardingId, userEmail, updates, fault) ==
    LET c == IndexOfItem(w.cosmos.onboarding, onboardingId, userEmail, 1)
        m == IndexOfItem(w.memoryStore.onboarding, onboardingId, userEmail, 1)
    IN IF "onboarding" \in w.containers /\ ~fault /\ c # 0
       THEN [w |-> [w EXCEPT !.cosmos.onboarding[c] = Merge(@, updates)],
             updated |-> "cosmos"]
       ELSE IF m # 0
            THEN [w |-> [w EXCEPT !.memoryStore.onboarding[m] = Merge(@, updates)],
                  updated |-> "memory"]
            ELSE [w |-> w, updated |-> "none"]

RECURSIVE SaveTasksFrom(_, _, _, _, _, _)
\* the loop of saveTasks from task i on; failing: the indices whose Cosmos create throws
SaveTasksFrom(w, userEmail, tasks, i, failing, savedTasks) ==
    IF i > Len(tasks)
    THEN [w |-> w, ret |-> savedTasks, threw |-> FALSE]
    ELSE LET taskItem == Merge(tasks[i], [userEmail |-> userEmail, id |-> w.nextId])
             r == Create(w, "tasks", taskItem, i \in failing)
         IN IF r.threw
            THEN [w |-> r.w, ret |-> savedTasks, threw |-> TRUE]
            ELSE SaveTasksFrom(r.w, userEmail, tasks, i + 1, failing,
                               Append(savedTasks, r.ret))

saveTasks(w, userEmail, tasks, failing) ==
    SaveTasksFrom(w, userEmail, tasks, 1, failing, <<>>)

getTasks(w, userEmail, fault) ==
    IF "tasks" \in w.containers /\ ~fault
    THEN OfUser(w.cosmos.tasks, userEmail)
    ELSE OfUser(w.memoryStore.tasks, userEmail)

updateTaskProgress(w, taskId, userEmail, updates, fault) ==
    LET c == IndexOfItem(w.cosmos.tasks, taskId, userEmail, 1)
        m == IndexOfItem(w.memoryStore.tasks, taskId, userEmail, 1)
    IN IF "tasks" \in w.containers /\ ~fault /\ c # 0
       THEN [w |-> [w EXCEPT !.cosmos.tasks[c] = Merge(@, updates)], updated |-> "cosmos"]
       ELSE IF m # 0
            THEN [w |-> [w EXCEPT !.memoryStore.tasks[m] = Merge(@, updates)],
                  updated |-> "memory"]
            ELSE [w |-> w, updated |-> "none"]

\* the task is deleted by deletePendingTasks(userEmail, subject); subject Null: any
IsDeleted(t, userEmail, subject) ==
    /\ t.userEmail = userEmail
    /\ t.status = "pending"
    /\ (subject # Null => t.subject = subject)

\* a fault is an exception of the Cosmos query, before any item is deleted
deletePendingTasks(w, userEmail, subject, fault) ==
    IF "tasks" \in w.containers /\ ~fault
    THEN [w EXCEPT !.cosmos.tasks =
            SelectSeq(@, LAMBDA t : ~IsDeleted(t, userEmail, subject))]
    ELSE [w EXCEPT !.memoryStore.tasks =
            SelectSeq(@, LAMBDA t : ~IsDeleted(t, userEmail, subject))]

saveQuizResult(w, userEmail, result, fault) ==
    Create(w, "quizResults", Merge(result, [userEmail |-> userEmail, id |-> w.nextId]),
           fault)

\* Cosmos: ORDER BY c.timestamp DESC; memory: insertion order
getQuizResults(w, userEmail, fault) ==
    IF "quizResults" \in w.containers /\ ~fault
    THEN Reverse(OfUser(w.cosmos.quizResults, userEmail))
    ELSE OfUser(w.memoryStore.quizResults, userEmail)

\* --------------------------------------------------------- planning engine
\* The outcome of callGeminiWithRetry followed by parseGeminiJson
LlmKinds == {"throw", "unparsable", "null", "object", "array"}

\* an active plan: not an exam whose date has passed
IsActive(entry, todayStr) ==
    IF entry.mode = "exam" /\ entry.examDate # 0
    THEN entry.examDate >= todayStr
    ELSE TRUE

RECURSIVE DeleteForPlans(_, _, _, _)
\* for (const entry of plansContext) await deletePendingTasks(userEmail, entry.subject)
DeleteForPlans(w, userEmail, entries, fault) ==
    IF entries = <<>> THEN w
    ELSE DeleteForPlans(deletePendingTasks(w, userEmail, Head(entries).subject, fault),
                        userEmail, Tail(entries), fault)

RECURSIVE MarkReplanned(_, _, _, _, _)
\* for (const entry of activeEntries) await updateOnboarding(entry.id, userEmail, {lastReplanned})
MarkReplanned(w, userEmail, entries, todayStr, fault) ==
    IF entries = <<>> THEN w
    ELSE MarkReplanned(
            updateOnboarding(w, Head(entries).id, userEmail,
                             [lastReplanned |-> todayStr], fault).w,
            userEmail, Tail(entries), todayStr, fault)

Result(w, kind, count, llmCalls) ==
    [w |-> w, kind |-> kind, count |-> count, llmCalls |-> llmCalls]

\* The result kinds: "skipped" {redistributed:false}; "replanned"
\* {redistributed:true, count}; "empty" {redistributed:false, count:0};
\* "aiError" {error, redistributed:false}; "error" {error}.
\* faults: the data-layer functions whose Cosmos calls throw during this call.
ensureOptimalPlan(w, todayStr, userEmail, currentMood, force, faults, llm) ==
    LET user == getUserByEmail(w, userEmail, "getUserByEmail" \in faults).user
        onboardingEntries == getOnboarding(w, userEmail, "getOnboarding" \in faults)
        activeEntries == SelectSeq(onboardingEntries, LAMBDA e : IsActive(e, todayStr))
        triggering == \E i \in 1..Len(activeEntries) :
                         activeEntries[i].lastReplanned # todayStr
        needsReplan == triggering \/ force
        \* the default parameter replaces undefined, not null
        mood == IF currentMood = Undefined THEN "okay" ELSE currentMood
        w1 == DeleteForPlans(w, userEmail, onboardingEntries,
                             "deletePendingTasks" \in faults)
        saved == saveTasks(w1, userEmail, llm.tasks,
                           IF "saveTasks" \in faults THEN 1..Len(llm.tasks) ELSE {})
        stamped(x) == MarkReplanned(x, userEmail, activeEntries, todayStr,
                                    "updateOnboarding" \in faults)
    IN IF onboardingEntries = <<>> THEN Result(w, "skipped", 0, 0)
       ELSE IF activeEntries = <<>> THEN Result(w, "skipped", 0, 0)
       ELSE IF ~needsReplan THEN Result(w, "skipped", 0, 0)
       \* user.dailyHours of null, null.toUpperCase(): the outer catch
       ELSE IF user = NullUser \/ mood = Null THEN Result(w, "error", 0, 0)
       ELSE IF llm.kind \in {"throw", "unparsable"}
            THEN Result(stamped(w), "aiError", 0, 1)
       ELSE IF llm.kind = "array" /\ Len(llm.tasks) > 0
            THEN Result(stamped(saved.w), "replanned", Len(llm.tasks), 1)
       ELSE Result(w, "empty", 0, 1)

adjustTasksForMood(w, todayStr, userEmail, mood, faults, llm) ==
    ensureOptimalPlan(w, todayStr, userEmail, mood, FALSE, faults, llm)

markTopicAsWeak(w, todayStr, userEmail, faults, llm) ==
    ensureOptimalPlan(w, todayStr, userEmail, Undefined, FALSE, faults, llm)

\* the days of the fixed 1-4-7 rule and the horizon below which it is skipped
Day4Offset == 3
Day7Offset == 6
MinDaysToExam == 14

IsLearning(sessionType) == sessionType \in {"Core Learning", "Learning"}

RECURSIVE ExtraTasks(_, _)
\* the extraTasks of applySpacedRepetition, in the order of the loop
ExtraTasks(learningTasks, exam) ==
    IF learningTasks = <<>> THEN <<>>
    ELSE LET task == Head(learningTasks)
             \* comparisons with an Invalid Date are false
             rev3 == IF exam # 0 /\ task.date # 0 /\ task.date + Day4Offset < exam
                     THEN <<[task EXCEPT !.date = @ + Day4Offset,
                                         !.sessionType = "Reinforcement Revision"]>>
                     ELSE <<>>
             rev6 == IF exam # 0 /\ task.date # 0 /\ task.date + Day7Offset < exam
                     THEN <<[task EXCEPT !.date = @ + Day7Offset,
                                         !.sessionType = "Deep Revision"]>>
                     ELSE <<>>
         IN rev3 \o rev6 \o ExtraTasks(Tail(learningTasks), exam)

\* a variant: the revisions are added however near the exam is
applySpacedRepetitionAlways(tasks, examDate, todayStr) ==
    tasks \o ExtraTasks(SelectSeq(tasks, LAMBDA t : IsLearning(t.sessionType)), examDate)

\* a variant: an exam exactly 14 days away is too near as well
applySpacedRepetitionOver14(tasks, examDate, todayStr) ==
    IF examDate # 0 /\ examDate - todayStr <= MinDaysToExam
    THEN tasks
    ELSE tasks \o ExtraTasks(SelectSeq(tasks, LAMBDA t : IsLearning(t.sessionType)),
                             examDate)

\* examDate 0: undefined, so that diffDays is NaN and diffDays < 14 is false
applySpacedRepetition(tasks, examDate, todayStr) ==
    IF examDate # 0 /\ examDate - todayStr < MinDaysToExam
    THEN tasks
    ELSE tasks \o ExtraTasks(SelectSeq(tasks, LAMBDA t : IsLearning(t.sessionType)),
                             examDate)

\* ------------------------------------------------------------- geminiUtils
\* An error message is modelled by the set of the patterns it contains.
QuotaPatterns == {"429", "Quota", "limit"}

TransientPatterns == {"503", "500", "timeout", "network", "ETIMEDOUT", "ECONNRESET"}

ErrorMessages ==
    {{}} \cup {{p} : p \in QuotaPatterns \cup TransientPatterns}
         \cup {{q, t} : q \in {"429", "limit"}, t \in {"503", "timeout"}}

isQuotaError(message) == message \cap QuotaPatterns # {}

isTransientError(message) == message \cap TransientPatterns # {}

\* the error thrown by the attempt-th call of generateContent
GeminiError(message, attempt) == [message |-> message, attempt |-> attempt]

\* new Error('Daily AI Quota Exceeded. Please try again later or check your API key.')
QuotaExceeded == [message |-> {"Quota"}, attempt |-> 0]

DefaultMaxRetries == 2

BackoffBase == 2000

NoError == [message |-> {}, attempt |-> 0]

NoCall ==
    [pc |-> "idle", maxRetries |-> DefaultMaxRetries, retryCount |-> 0, attempts |-> 0,
     errors |-> <<>>, waits |-> <<>>, result |-> "none", thrown |-> NoError]

\* the end of the call: it returns the text, returns undefined, or throws
Ended(c, result, thrown) == [c EXCEPT !.pc = "done", !.result = result, !.thrown = thrown]

\* a variant: a transient error is retried whatever retryCount is
onErrorAlwaysRetries(c, error) ==
    IF isQuotaError(error.message) THEN Ended(c, "threw", QuotaExceeded)
    ELSE IF isTransientError(error.message)
         THEN [c EXCEPT !.pc = "wait",
                        !.waits = Append(@, (2 ^ c.retryCount) * BackoffBase)]
    ELSE Ended(c, "threw", error)

\* a variant: the transient patterns are looked for before the quota patterns
onErrorTransientFirst(c, error) ==
    IF isTransientError(error.message) /\ c.retryCount < c.maxRetries
    THEN [c EXCEPT !.pc = "wait", !.waits = Append(@, (2 ^ c.retryCount) * BackoffBase)]
    ELSE IF isQuotaError(error.message) THEN Ended(c, "threw", QuotaExceeded)
    ELSE Ended(c, "threw", error)

\* the catch block of callGeminiWithRetry
onError(c, error) ==
    IF isQuotaError(error.message) THEN Ended(c, "threw", QuotaExceeded)
    ELSE IF isTransientError(error.message) /\ c.retryCount < c.maxRetries
         THEN [c EXCEPT !.pc = "wait",
                        !.waits = Append(@, (2 ^ c.retryCount) * BackoffBase)]
    ELSE Ended(c, "threw", error)

\* A text is a sequence of tokens: the brackets and braces, "1" (a number), "q" (a
\* double quote), "f" (three backticks), "json" (the word after a fence) and "ws"
\* (a whitespace character). Commas and the keys of objects are left out: the
\* elements of an array and the members of an object stand side by side.
RECURSIVE RemoveJsonFences(_)
\* text.replace(/```json\s?/g, '')
RemoveJsonFences(t) ==
    IF t = <<>> THEN <<>>
    ELSE IF Len(t) >= 2 /\ t[1] = "f" /\ t[2] = "json"
         THEN IF Len(t) >= 3 /\ t[3] = "ws"
              THEN RemoveJsonFences(SubSeq(t, 4, Len(t)))
              ELSE RemoveJsonFences(SubSeq(t, 3, Len(t)))
    ELSE <<Head(t)>> \o RemoveJsonFences(Tail(t))

RECURSIVE RemoveFences(_)
\* .replace(/```\s?/g, '')
RemoveFences(t) ==
    IF t = <<>> THEN <<>>
    ELSE IF t[1] = "f"
         THEN IF Len(t) >= 2 /\ t[2] = "ws"
              THEN RemoveFences(SubSeq(t, 3, Len(t)))
              ELSE RemoveFences(Tail(t))
    ELSE <<Head(t)>> \o RemoveFences(Tail(t))

RECURSIVE Trim(_)
\* .trim()
Trim(t) ==
    IF t = <<>> THEN <<>>
    ELSE IF t[1] = "ws" THEN Trim(Tail(t))
    ELSE IF t[Len(t)] = "ws" THEN Trim(SubSeq(t, 1, Len(t) - 1))
    ELSE t

\* indexOf and lastIndexOf, counted from 1; 0 for -1
IndexOf(t, c) ==
    IF \E i \in 1..Len(t) : t[i] = c
    THEN CHOOSE i \in 1..Len(t) : t[i] = c /\ \A j \in 1..(i - 1) : t[j] # c
    ELSE 0

LastIndexOf(t, c) ==
    IF \E i \in 1..Len(t) : t[i] = c
    THEN CHOOSE i \in 1..Len(t) : t[i] = c /\ \A j \in (i + 1)..Len(t) : t[j] # c
    ELSE 0

\* cleaned.substring(first0, last0 + 1) for the positions firstAt and lastAt counted
\* from 1: substring swaps its arguments when the first is the greater
Substring(t, firstAt, lastAt) ==
    LET start == firstAt - 1
        end == lastAt
    IN IF start <= end THEN SubSeq(t, start + 1, end) ELSE SubSeq(t, end + 1, start)

RECURSIVE JsonEnd(_, _)
RECURSIVE ItemsEnd(_, _, _)
\* JSON.parse's grammar: the position after the value that starts at i, 0 when
\* there is none
JsonEnd(t, i) ==
    IF i > Len(t) THEN 0
    ELSE IF t[i] = "1" THEN i + 1
    ELSE IF t[i] = "q"
         THEN IF \E j \in (i + 1)..Len(t) : t[j] = "q"
              THEN 1 + CHOOSE j \in (i + 1)..Len(t) :
                          t[j] = "q" /\ \A k \in (i + 1)..(j - 1) : t[k] # "q"
              ELSE 0
    ELSE IF t[i] = "[" THEN ItemsEnd(t, i + 1, "]")
    ELSE IF t[i] = "{" THEN ItemsEnd(t, i + 1, "}")
    ELSE 0

\* the elements up to the closing token
ItemsEnd(t, i, close) ==
    IF i > Len(t) THEN 0
    ELSE IF t[i] = close THEN i + 1
    ELSE LET e == JsonEnd(t, i)
         IN IF e = 0 THEN 0 ELSE ItemsEnd(t, e, close)

\* JSON.parse: the value (its tokens stand for it) or a SyntaxError
JsonParse(t) ==
    IF JsonEnd(t, 1) = Len(t) + 1
    THEN [kind |-> "value", value |-> t]
    ELSE [kind |-> "threw", value |-> <<>>]

ParsedNull == [kind |-> "null", value |-> <<>>]

\* throw new Error(`Failed to parse AI response: ...`)
FailedToParse == [kind |-> "threw", value |-> <<>>]

\* the variable extracted of parseGeminiJson; <<>> for null and for ''
Extracted(cleaned) ==
    LET firstBracket == IndexOf(cleaned, "[")
        lastBracket == LastIndexOf(cleaned, "]")
        firstBrace == IndexOf(cleaned, "{")
        lastBrace == LastIndexOf(cleaned, "}")
    IN IF /\ firstBracket # 0
          /\ lastBracket # 0
          /\ (firstBrace = 0 \/ firstBracket < firstBrace)
       THEN Substring(cleaned, firstBracket, lastBracket)
       ELSE IF firstBrace # 0 /\ lastBrace # 0
            THEN Substring(cleaned, firstBrace, lastBrace)
       ELSE <<>>

parseGeminiJson(text) ==
    LET cleaned == Trim(RemoveFences(RemoveJsonFences(text)))
        extracted == Extracted(cleaned)
    IN IF text = <<>> THEN ParsedNull
       ELSE IF JsonParse(cleaned).kind = "value" THEN JsonParse(cleaned)
       ELSE IF extracted # <<>> /\ JsonParse(extracted).kind = "value"
            THEN JsonParse(extracted)
       ELSE FailedToParse

\* ------------------------------------------------------------------ server
\* The Authorization header: missing, without the 'Bearer ' prefix, a token that
\* does not decode to JSON, a token that decodes to a falsy JSON value (null),
\* or the token of an email.
BadHeaders ==
    {[kind |-> k, email |-> Null] : k \in {"missing", "noBearer", "notJson", "falsyJson"}}

\* a mutant: a token that does not parse is taken for a decoded one
verifyTokenNoCatch(h) ==
    IF h.kind \in {"missing", "noBearer"} THEN [ok |-> FALSE, email |-> Null]
    ELSE [ok |-> TRUE, email |-> h.email]

\* the decoded token (ok) or null (not ok)
verifyToken(h) ==
    IF h.kind \in {"missing", "noBearer"} THEN [ok |-> FALSE, email |-> Null]
    ELSE IF h.kind \in {"notJson", "falsyJson"} THEN [ok |-> FALSE, email |-> Null]
    ELSE [ok |-> TRUE, email |-> h.email]

Llm(kind, tasks) == [kind |-> kind, tasks |-> tasks]

NoAnswer == Llm("none", <<>>)

\* What a handler did: the new world, the HTTP status, the result kind of
\* ensureOptimalPlan ("none" when not called), the number of LLM calls, the
\* data-layer functions it called and the answer the plan generator got.
Out(w, status, plan, llmCalls, dbCalls) ==
    [w |-> w, status |-> status, plan |-> plan, llmCalls |-> llmCalls, dbCalls |-> dbCalls,
     llm |-> NoAnswer]

Answered(out, llm) == [out EXCEPT !.llm = llm]

Unauthorized(w) == Out(w, 401, "none", 0, {})

\* the fault patterns drawn for a handler that uses the functions fs: no Cosmos
\* call throws, the calls of one function throw, or all do
FaultSets(fs) == IF cfg.faults THEN {{}} \cup {{f} : f \in fs} \cup {fs} ELSE {{}}

Task(subject, date, sessionType) ==
    [subject |-> subject, topic |-> "topic", subtopic |-> "subtopic",
     duration |-> "45 mins", date |-> date, sessionType |-> sessionType,
     status |-> "pending"]

TaskLists ==
    {<<Task("Math", 2, "Core Learning")>>,
     <<Task("Bio", 1, "Practice"), Task("Math", 3, "Core Learning")>>}

\* what the LLM call and the parse of its answer can give
LlmOutcomes ==
    {Llm(k, <<>>) : k \in LlmKinds} \cup {Llm("array", ts) : ts \in TaskLists}

\* a generated task without its topic
IncompleteTask == [Task("Math", 2, "Core Learning") EXCEPT !.topic = Null]

GenerateOutcomes ==
    LlmOutcomes \cup {Llm("array", <<Task("Math", 2, "Practice"), IncompleteTask>>)}

PlanInputs ==
    {[mode |-> "exam", subject |-> "Math", examDate |-> 1],
     [mode |-> "exam", subject |-> "Math", examDate |-> 20],
     [mode |-> "skill", subject |-> "Bio", examDate |-> 0]}

RequiredFields == {"subject", "topic", "subtopic", "duration", "date", "sessionType"}

IsMissing(task, field) ==
    IF field = "date" THEN task.date = 0 ELSE task[field] = Null

\* generatePlanFromOnboarding: the generated tasks, or the Error it throws
generatePlanFromOnboarding(llm) ==
    IF llm.kind \in {"throw", "unparsable"} THEN [threw |-> TRUE, tasks |-> <<>>]
    ELSE IF llm.kind # "array" \/ llm.tasks = <<>> THEN [threw |-> TRUE, tasks |-> <<>>]
    ELSE IF \E i \in 1..Len(llm.tasks) : \E f \in RequiredFields : IsMissing(llm.tasks[i], f)
         THEN [threw |-> TRUE, tasks |-> <<>>]
    ELSE [threw |-> FALSE, tasks |-> llm.tasks]

\* POST /api/auth/signup
signup(w, email, faults) ==
    LET existingUser == getUserByEmail(w, email, "getUserByEmail" \in faults).user
        c == createUser(w, email, "createUser" \in faults)
    IN IF existingUser # NullUser THEN Out(w, 400, "none", 0, {"getUserByEmail"})
       ELSE IF c.threw THEN Out(c.w, 500, "none", 0, {"getUserByEmail", "createUser"})
       ELSE Out(c.w, 200, "none", 0, {"getUserByEmail", "createUser"})

\* POST /api/auth/login; passwordOk: bcrypt.compare
login(w, email, passwordOk, faults) ==
    LET user == getUserByEmail(w, email, "getUserByEmail" \in faults).user
    IN IF user = NullUser \/ ~passwordOk THEN Out(w, 401, "none", 0, {"getUserByEmail"})
       ELSE Out(w, 200, "none", 0, {"getUserByEmail"})

\* GET /api/user/profile
getProfile(w, todayStr, email, faults) ==
    LET user == getUserByEmail(w, email, "getUserByEmail" \in faults).user
        broken == /\ user.currentStreak > 0
                  /\ user.lastStreakDate # todayStr
                  /\ user.lastStreakDate # todayStr - 1
    IN IF user = NullUser THEN Out(w, 404, "none", 0, {"getUserByEmail"})
       ELSE IF broken
            THEN Out(updateUser(w, email, [currentStreak |-> 0], "updateUser" \in faults).w,
                     200, "none", 0, {"getUserByEmail", "updateUser"})
       ELSE Out(w, 200, "none", 0, {"getUserByEmail"})

\* POST /api/user/mood; mood Undefined: no mood in the body
postUserMood(w, todayStr, email, mood, faults, llm) ==
    LET g == getUserByEmail(w, email, "getUserByEmail" \in faults)
        user == g.user
        entry == [date |-> todayStr, mood |-> mood]
        moodHistory == IF user.historyDefined THEN Append(user.moodHistory, entry)
                       ELSE <<entry>>
        \* push mutates the array of the stored object when the user is memoryStore's
        w1 == IF g.from = "memory" /\ user.historyDefined
              THEN [w EXCEPT !.memoryStore.users[g.index].moodHistory = moodHistory]
              ELSE w
        u == updateUser(w1, email,
                        [lastMoodDate |-> todayStr, currentMood |-> mood,
                         moodHistory |-> moodHistory, historyDefined |-> TRUE],
                        "updateUser" \in faults)
        r == adjustTasksForMood(u.w, todayStr, email, mood, faults, llm)
    IN IF mood = Undefined THEN Out(w, 400, "none", 0, {})
       ELSE IF user = NullUser THEN Out(w, 404, "none", 0, {"getUserByEmail"})
       ELSE IF user.lastMoodDate = todayStr THEN Out(w, 400, "none", 0, {"getUserByEmail"})
       ELSE Out(r.w, 200, r.kind, r.llmCalls,
                {"getUserByEmail", "updateUser", "ensureOptimalPlan"})

\* GET /api/onboarding
getOnboardingData(w, email, faults) == Out(w, 200, "none", 0, {"getOnboarding"})

\* POST /api/onboarding
postOnboarding(w, todayStr, email, plan, faults) ==
    LET c == createOnboarding(w, email, plan.mode, plan.subject, plan.examDate, todayStr,
                              "createOnboarding" \in faults)
    IN IF c.threw THEN Out(c.w, 500, "none", 0, {"createOnboarding"})
       ELSE Out(c.w, 200, "none", 0, {"createOnboarding"})

\* GET /api/tasks
getTasksList(w, email, faults) == Out(w, 200, "none", 0, {"getTasks"})

\* POST /api/tasks
postTasks(w, email, tasks, faults) ==
    LET r == saveTasks(w, email, tasks,
                       IF "saveTasks" \in faults THEN 1..Len(tasks) ELSE {})
    IN IF r.threw THEN Out(r.w, 500, "none", 0, {"saveTasks"})
       ELSE Out(r.w, 200, "none", 0, {"saveTasks"})

\* PATCH /api/tasks/:id/progress
patchProgress(w, email, id, updates, faults) ==
    LET r == updateTaskProgress(w, id, email, updates, "updateTaskProgress" \in faults)
    IN IF r.updated = "none" THEN Out(w, 404, "none", 0, {"updateTaskProgress"})
       ELSE Out(r.w, 200, "none", 0, {"updateTaskProgress"})

\* GET /api/study-plan/active
getActivePlan(w, todayStr, email, faults, llm) ==
    LET onboardingEntries == getOnboarding(w, email, "getOnboarding" \in faults)
        activePlans == SelectSeq(onboardingEntries, LAMBDA e : IsActive(e, todayStr))
        user == getUserByEmail(w, email, "getUserByEmail" \in faults).user
        currentMood == IF user # NullUser THEN user.currentMood ELSE "okay"
        r == ensureOptimalPlan(w, todayStr, email, currentMood, FALSE, faults, llm)
    IN IF onboardingEntries = <<>> THEN Out(w, 200, "none", 0, {"getOnboarding"})
       ELSE IF activePlans = <<>> THEN Out(w, 200, "none", 0, {"getOnboarding"})
       ELSE Out(r.w, 200, r.kind, r.llmCalls,
                {"getOnboarding", "getUserByEmail", "ensureOptimalPlan", "getTasks"})

\* a mutant: the plan is stored before its tasks are generated
generateStudyPlanSavesFirst(w, todayStr, email, plan, faults, llm) ==
    LET c == createOnboarding(w, email, plan.mode, plan.subject, plan.examDate, todayStr,
                              "createOnboarding" \in faults)
        gen == generatePlanFromOnboarding(llm)
        optimizedTasks == applySpacedRepetition(gen.tasks, plan.examDate, todayStr)
        saved == saveTasks(c.w, email, optimizedTasks,
                           IF "saveTasks" \in faults THEN 1..Len(optimizedTasks) ELSE {})
    IN IF gen.threw
       THEN Out(c.w, 500, "none", 1, {"getOnboarding", "createOnboarding"})
       ELSE Out(saved.w, 200, "none", 1, {"getOnboarding", "saveTasks", "createOnboarding"})

\* POST /api/study-plan/generate
generateStudyPlan(w, todayStr, email, plan, faults, llm) ==
    LET gen == generatePlanFromOnboarding(llm)
        optimizedTasks == applySpacedRepetition(gen.tasks, plan.examDate, todayStr)
        saved == saveTasks(w, email, optimizedTasks,
                           IF "saveTasks" \in faults THEN 1..Len(optimizedTasks) ELSE {})
        c == createOnboarding(saved.w, email, plan.mode, plan.subject, plan.examDate,
                              todayStr, "createOnboarding" \in faults)
    IN IF gen.threw THEN Out(w, 500, "none", 1, {"getOnboarding"})
       ELSE IF saved.threw THEN Out(saved.w, 500, "none", 1, {"getOnboarding", "saveTasks"})
       ELSE IF c.threw
            THEN Out(c.w, 500, "none", 1, {"getOnboarding", "saveTasks", "createOnboarding"})
       ELSE Out(c.w, 200, "none", 1, {"getOnboarding", "saveTasks", "createOnboarding"})

\* POST /api/chat, /api/explain, /api/quiz/generate, /api/learning/content: one
\* LLM call and no data; ok: the call (and for the JSON endpoints the parse) succeeds
llmEndpoint(w, ok) ==
    IF ok THEN Out(w, 200, "none", 1, {}) ELSE Out(w, 500, "none", 1, {})

\* POST /api/quiz/evaluate; evaluation: what the evaluating LLM call gives
evaluateQuiz(w, todayStr, email, evaluation, faults, llm) ==
    LET user == getUserByEmail(w, email, "getUserByEmail" \in faults).user
        currentStreak == IF user.lastStreakDate # 0 /\ user.lastStreakDate = todayStr - 1
                         THEN user.currentStreak + 1
                         ELSE 1
        w1 == IF user # NullUser /\ user.lastStreakDate # todayStr
              THEN updateUser(w, email,
                              [currentStreak |-> currentStreak, lastStreakDate |-> todayStr],
                              "updateUser" \in faults).w
              ELSE w
        r == markTopicAsWeak(w, todayStr, email, faults, llm)
        q(x) == saveQuizResult(x, email, [subject |-> "Math", passed |-> evaluation = "pass"],
                               "saveQuizResult" \in faults)
    IN IF evaluation \in {"throw", "null"} THEN Out(w, 500, "none", 1, {})
       ELSE IF evaluation = "pass"
            THEN IF q(w1).threw
                 THEN Out(q(w1).w, 500, "none", 1, {"getUserByEmail", "updateUser", "saveQuizResult"})
                 ELSE Out(q(w1).w, 200, "none", 1, {"getUserByEmail", "updateUser", "saveQuizResult"})
       ELSE IF q(r.w).threw
            THEN Out(q(r.w).w, 500, r.kind, 1 + r.llmCalls, {"ensureOptimalPlan", "saveQuizResult"})
            ELSE Out(q(r.w).w, 200, r.kind, 1 + r.llmCalls, {"ensureOptimalPlan", "saveQuizResult"})

\* POST /api/resources: a YouTube search, no data and no LLM
getResources(w) == Out(w, 200, "none", 0, {})

\* GET /api/insights; the insights come from an LLM call (groqUtils)
getInsights(w, email, faults) ==
    LET user == getUserByEmail(w, email, "getUserByEmail" \in faults).user
    IN IF user = NullUser
       THEN Out(w, 404, "none", 0, {"getUserByEmail", "getTasks", "getQuizResults"})
       ELSE Out(w, 200, "none", 1, {"getUserByEmail", "getTasks", "getQuizResults"})

\* ----------------------------------------------------------------- actions
Runs == 1..MaxOverlap

\* no execution: the locals todayStr, onboardingEntries, activeEntries and newTasks
\* of ensureOptimalPlan, and the kind of its result
NoRun ==
    [pc |-> "idle", todayStr |-> 0, onboardingEntries |-> <<>>, activeEntries |-> <<>>,
     newTasks |-> <<>>, result |-> "none"]

NoRequest ==
    [op |-> "none", auth |-> "none", email |-> Null, status |-> 0, plan |-> "none",
     llmCalls |-> 0, dbCalls |-> {}, mood |-> Null, llm |-> NoAnswer]

PlanIds(w, e) ==
    {p.id : p \in Range(OfUser(w.cosmos.onboarding, e))
                  \cup Range(OfUser(w.memoryStore.onboarding, e))}

\* ensureOptimalPlan called the LLM exactly when its result is one of these
CalledLlm(plan) == plan \in {"replanned", "empty", "aiError"}

\* the answer is part of what happened when ensureOptimalPlan asked for it
Asked(out, llm) == IF CalledLlm(out.plan) THEN Answered(out, llm) ELSE out

\* a request is handled: the world and the response it leaves
Respond(op, h, email, mood, out) ==
    /\ reqs < cfg.budget
    /\ reqs' = reqs + 1
    /\ SetWorld(out.w)
    /\ last' = [op |-> op, auth |-> h.kind, email |-> email, status |-> out.status,
                plan |-> out.plan, llmCalls |-> out.llmCalls, dbCalls |-> out.dbCalls,
                mood |-> mood, llm |-> out.llm]
    /\ replans' = [e \in Emails |->
                      IF PlanIds(out.w, e) # PlanIds(World, e) THEN 0
                      ELSE IF e = email /\ CalledLlm(out.plan) THEN replans[e] + 1
                      ELSE replans[e]]
    /\ UNCHANGED <<today, gemini, runs, cfg>>

NoHeader == [kind |-> "none", email |-> Null]

Token(e) == [kind |-> "token", email |-> e]

\* the state after the module is loaded and initializeDatabase has run, which sets
\* the first n containers (all of them when it succeeds)
Start(ns, c) ==
    /\ today = 1
    /\ containers \in {InitializedContainers(n) : n \in ns}
    /\ cosmos = EmptyCosmos
    /\ memoryStore = InitialMemoryStore
    /\ nextId = 2
    /\ reqs = 0
    /\ last = NoRequest
    /\ replans = [e \in Emails |-> 0]
    /\ gemini = NoCall
    /\ runs = [p \in Runs |-> NoRun]
    /\ cfg = c

\* Every endpoint; the clients are demo's and those without a valid token, "a" signs
\* up, initializeDatabase succeeds, and no Cosmos call throws.
Init ==
    Start({Len(ContainerOrder)},
          [headers |-> BadHeaders \cup {Token("demo")}, emails |-> {"a"},
           faults |-> FALSE, budget |-> MaxReqs])

\* demo's plans and their replanning, no Cosmos call throws
InitPlan ==
    Start({0, Len(ContainerOrder)},
          [headers |-> {Token("demo")}, emails |-> {}, faults |-> FALSE,
           budget |-> MaxPlanReqs])

\* the same with Cosmos calls that can throw
InitPlanFaults ==
    Start({0, Len(ContainerOrder)},
          [headers |-> {Token("demo")}, emails |-> {}, faults |-> TRUE,
           budget |-> MaxPlanFaultReqs])

\* "a" signs up, logs in and logs moods, with Cosmos calls that can throw
InitUsers ==
    Start({0, Len(ContainerOrder)},
          [headers |-> {Token("a")}, emails |-> {"a"}, faults |-> TRUE,
           budget |-> MaxUserReqs])

\* plans are generated for demo, with Cosmos calls that can throw
InitGenerate ==
    Start({0, Len(ContainerOrder)},
          [headers |-> {Token("demo")}, emails |-> {}, faults |-> TRUE,
           budget |-> MaxGenReqs])

\* midnight (UTC) passes
NextDay ==
    /\ today < MaxDay
    /\ today' = today + 1
    /\ last' = NoRequest
    /\ replans' = [e \in Emails |-> 0]
    /\ UNCHANGED <<containers, cosmos, memoryStore, nextId, reqs, gemini, runs, cfg>>

Signup ==
    \E email \in cfg.emails, faults \in FaultSets({"getUserByEmail", "createUser"}) :
        Respond("POST /api/auth/signup", NoHeader, email, Null, signup(World, email, faults))

Login ==
    \E email \in cfg.emails, passwordOk \in BOOLEAN, faults \in FaultSets({"getUserByEmail"}) :
        Respond("POST /api/auth/login", NoHeader, email, Null,
                login(World, email, passwordOk, faults))

GetProfile ==
    \E h \in cfg.headers :
        LET decoded == verifyToken(h)
            op == "GET /api/user/profile"
        IN IF ~decoded.ok THEN Respond(op, h, decoded.email, Null, Unauthorized(World))
           ELSE \E faults \in FaultSets({"getUserByEmail", "updateUser"}) :
                   Respond(op, h, decoded.email, Null,
                           getProfile(World, today, decoded.email, faults))

PostUserMood ==
    \E h \in cfg.headers :
        LET decoded == verifyToken(h)
            op == "POST /api/user/mood"
        IN IF ~decoded.ok THEN Respond(op, h, decoded.email, Null, Unauthorized(World))
           ELSE \E mood \in Moods \cup {Undefined}, llm \in LlmOutcomes,
                   faults \in FaultSets({"getUserByEmail", "updateUser", "getOnboarding",
                                         "deletePendingTasks", "saveTasks",
                                         "updateOnboarding"}) :
                   Respond(op, h, decoded.email, mood,
                           Asked(postUserMood(World, today, decoded.email, mood, faults,
                                              llm), llm))

GetOnboarding ==
    \E h \in cfg.headers :
        LET decoded == verifyToken(h)
            op == "GET /api/onboarding"
        IN IF ~decoded.ok THEN Respond(op, h, decoded.email, Null, Unauthorized(World))
           ELSE Respond(op, h, decoded.email, Null,
                        getOnboardingData(World, decoded.email, {}))

PostOnboarding ==
    \E h \in cfg.headers :
        LET decoded == verifyToken(h)
            op == "POST /api/onboarding"
        IN IF ~decoded.ok THEN Respond(op, h, decoded.email, Null, Unauthorized(World))
           ELSE \E plan \in PlanInputs, faults \in FaultSets({"createOnboarding"}) :
                   Respond(op, h, decoded.email, Null,
                           postOnboarding(World, today, decoded.email, plan, faults))

GetTasks ==
    \E h \in cfg.headers :
        LET decoded == verifyToken(h)
            op == "GET /api/tasks"
        IN IF ~decoded.ok THEN Respond(op, h, decoded.email, Null, Unauthorized(World))
           ELSE Respond(op, h, decoded.email, Null, getTasksList(World, decoded.email, {}))

PostTasks ==
    \E h \in cfg.headers :
        LET decoded == verifyToken(h)
            op == "POST /api/tasks"
        IN IF ~decoded.ok THEN Respond(op, h, decoded.email, Null, Unauthorized(World))
           ELSE \E tasks \in TaskLists, faults \in FaultSets({"saveTasks"}) :
                   Respond(op, h, decoded.email, Null,
                           postTasks(World, decoded.email, tasks, faults))

TaskIds(w) == {t.id : t \in Range(w.cosmos.tasks) \cup Range(w.memoryStore.tasks)}

PatchProgress ==
    \E h \in cfg.headers :
        LET decoded == verifyToken(h)
            op == "PATCH /api/tasks/:id/progress"
        IN IF ~decoded.ok THEN Respond(op, h, decoded.email, Null, Unauthorized(World))
           ELSE \E id \in TaskIds(World) \cup {0},
                   faults \in FaultSets({"updateTaskProgress"}) :
                   Respond(op, h, decoded.email, Null,
                           patchProgress(World, decoded.email, id,
                                         [status |-> "completed"], faults))

GetActivePlan ==
    \E h \in cfg.headers :
        LET decoded == verifyToken(h)
            op == "GET /api/study-plan/active"
        IN IF ~decoded.ok THEN Respond(op, h, decoded.email, Null, Unauthorized(World))
           ELSE \E llm \in LlmOutcomes,
                   faults \in FaultSets({"getUserByEmail", "getOnboarding", "getTasks",
                                         "deletePendingTasks", "saveTasks",
                                         "updateOnboarding"}) :
                   Respond(op, h, decoded.email, Null,
                           Asked(getActivePlan(World, today, decoded.email, faults, llm),
                                 llm))

GenerateStudyPlan ==
    \E h \in cfg.headers :
        LET decoded == verifyToken(h)
            op == "POST /api/study-plan/generate"
        IN IF ~decoded.ok THEN Respond(op, h, decoded.email, Null, Unauthorized(World))
           ELSE \E plan \in PlanInputs, llm \in GenerateOutcomes,
                   faults \in FaultSets({"getOnboarding", "saveTasks", "createOnboarding"}) :
                   Respond(op, h, decoded.email, Null,
                           Answered(generateStudyPlan(World, today, decoded.email, plan,
                                                      faults, llm), llm))

LlmEndpoints ==
    {"POST /api/chat", "POST /api/explain", "POST /api/quiz/generate",
     "POST /api/learning/content"}

LlmEndpoint ==
    \E h \in cfg.headers, op \in LlmEndpoints :
        LET decoded == verifyToken(h)
        IN IF ~decoded.ok THEN Respond(op, h, decoded.email, Null, Unauthorized(World))
           ELSE \E ok \in BOOLEAN :
                   Respond(op, h, decoded.email, Null, llmEndpoint(World, ok))

EvaluateQuiz ==
    \E h \in cfg.headers :
        LET decoded == verifyToken(h)
            op == "POST /api/quiz/evaluate"
        IN IF ~decoded.ok THEN Respond(op, h, decoded.email, Null, Unauthorized(World))
           ELSE \E evaluation \in {"throw", "null", "pass", "fail"}, llm \in LlmOutcomes,
                   faults \in FaultSets({"getUserByEmail", "updateUser", "getOnboarding",
                                         "deletePendingTasks", "saveTasks",
                                         "updateOnboarding", "saveQuizResult"}) :
                   Respond(op, h, decoded.email, Null,
                           Asked(evaluateQuiz(World, today, decoded.email, evaluation,
                                              faults, llm), llm))

GetResources ==
    \E h \in cfg.headers :
        LET decoded == verifyToken(h)
            op == "POST /api/resources"
        IN IF ~decoded.ok THEN Respond(op, h, decoded.email, Null, Unauthorized(World))
           ELSE Respond(op, h, decoded.email, Null, getResources(World))

GetInsights ==
    \E h \in cfg.headers :
        LET decoded == verifyToken(h)
            op == "GET /api/insights"
        IN IF ~decoded.ok THEN Respond(op, h, decoded.email, Null, Unauthorized(World))
           ELSE \E faults \in FaultSets({"getUserByEmail"}) :
                   Respond(op, h, decoded.email, Null,
                           getInsights(World, decoded.email, faults))

Next ==
    \/ NextDay
    \/ Signup
    \/ Login
    \/ GetProfile
    \/ PostUserMood
    \/ GetOnboarding
    \/ PostOnboarding
    \/ GetTasks
    \/ PostTasks
    \/ PatchProgress
    \/ GetActivePlan
    \/ GenerateStudyPlan
    \/ LlmEndpoint
    \/ EvaluateQuiz
    \/ GetResources
    \/ GetInsights

Spec == Init /\ [][Next]_vars

NextPlan ==
    \/ NextDay
    \/ PostOnboarding
    \/ GetActivePlan
    \/ PostUserMood
    \/ EvaluateQuiz

SpecPlan == InitPlan /\ [][NextPlan]_vars

SpecPlanFaults == InitPlanFaults /\ [][NextPlan]_vars

NextUsers ==
    \/ NextDay
    \/ Signup
    \/ Login
    \/ GetProfile
    \/ PostUserMood

SpecUsers == InitUsers /\ [][NextUsers]_vars

NextGenerate ==
    \/ NextDay
    \/ GenerateStudyPlan
    \/ PostTasks
    \/ GetActivePlan

SpecGenerate == InitGenerate /\ [][NextGenerate]_vars

\* ------------------------------------------------- applySpacedRepetition on its own
\* the exam dates given to it: none (0), and dates 12 days and more after day 1
ExamDates == {0} \cup ((MinDaysToExam - 1)..MaxExamDay)

\* the generated tasks: dated within the days before the exams or without a valid
\* date (0), learning sessions and others
RepetitionTasks ==
    {Task("Math", date, sessionType) :
        date \in {0} \cup ((MinDaysToExam - Day7Offset)..MaxExamDay),
        sessionType \in {"Core Learning", "Practice"}}

RepetitionInputs ==
    UNION {[1..n -> RepetitionTasks] : n \in 0..MaxTasks}

\* the function is applied to the tasks and the exam date of the run
ApplySpacedRepetition ==
    /\ reqs < cfg.budget
    /\ reqs' = reqs + 1
    /\ last' = [op |-> "applySpacedRepetition", tasks |-> cfg.tasks,
                examDate |-> cfg.examDate, today |-> today,
                result |-> applySpacedRepetition(cfg.tasks, cfg.examDate, today)]
    /\ UNCHANGED <<today, containers, cosmos, memoryStore, nextId, replans, gemini, runs,
                   cfg>>

InitRepetition ==
    \E tasks \in RepetitionInputs, examDate \in ExamDates :
        Start({0}, [headers |-> {}, emails |-> {}, faults |-> FALSE,
                    budget |-> MaxApplications, tasks |-> tasks, examDate |-> examDate])

NextRepetition ==
    \/ NextDay
    \/ ApplySpacedRepetition

SpecRepetition == InitRepetition /\ [][NextRepetition]_vars

\* ------------------------------------- ensureOptimalPlan, from await to await
\* One action per stretch of ensureOptimalPlan(demo, mood, false) between two
\* awaits that another execution can see; Cosmos DB is initialised, so that every
\* await of the data layer is a round trip, and none of its calls throws. Each of
\* the loops over the plans, and saveTasks, runs as one stretch.
RunStep(p, r) ==
    /\ runs' = [runs EXCEPT ![p] = r]
    /\ UNCHANGED <<today, last, gemini, cfg>>

Finished(r, kind) == [r EXCEPT !.pc = "done", !.result = kind]

\* a handler calls ensureOptimalPlan: todayStr is taken
EnsureOptimalPlan(p) ==
    /\ runs[p].pc = "idle"
    /\ reqs < cfg.budget
    /\ reqs' = reqs + 1
    /\ RunStep(p, [runs[p] EXCEPT !.pc = "getOnboarding", !.todayStr = today])
    /\ UNCHANGED <<containers, cosmos, memoryStore, nextId, replans>>

\* await getUserByEmail, await getOnboarding, and the guard
ReadPlans(p) ==
    LET r == runs[p]
        onboardingEntries == getOnboarding(World, "demo", FALSE)
        activeEntries == SelectSeq(onboardingEntries, LAMBDA e : IsActive(e, r.todayStr))
        triggering == \E i \in 1..Len(activeEntries) :
                         activeEntries[i].lastReplanned # r.todayStr
    IN /\ r.pc = "getOnboarding"
       /\ RunStep(p, IF onboardingEntries = <<>> \/ activeEntries = <<>> \/ ~triggering
                     THEN Finished(r, "skipped")
                     ELSE [r EXCEPT !.pc = "callGeminiWithRetry",
                                    !.onboardingEntries = onboardingEntries,
                                    !.activeEntries = activeEntries])
       /\ UNCHANGED <<containers, cosmos, memoryStore, nextId, reqs, replans>>

\* await getTasks, await getQuizResults, await callGeminiWithRetry, parseGeminiJson
AskGemini(p) ==
    LET r == runs[p]
    IN /\ r.pc = "callGeminiWithRetry"
       /\ \E llm \in LlmOutcomes :
             RunStep(p, IF llm.kind \in {"throw", "unparsable"}
                        THEN [r EXCEPT !.pc = "updateOnboarding", !.result = "aiError"]
                        ELSE IF llm.kind = "array" /\ Len(llm.tasks) > 0
                             THEN [r EXCEPT !.pc = "deletePendingTasks",
                                            !.newTasks = llm.tasks]
                        ELSE Finished(r, "empty"))
       /\ replans' = [replans EXCEPT !["demo"] = @ + 1]
       /\ UNCHANGED <<containers, cosmos, memoryStore, nextId, reqs>>

\* for (const entry of plansContext) await deletePendingTasks(userEmail, entry.subject)
DeletePending(p) ==
    LET r == runs[p]
    IN /\ r.pc = "deletePendingTasks"
       /\ SetWorld(DeleteForPlans(World, "demo", r.onboardingEntries, FALSE))
       /\ RunStep(p, [r EXCEPT !.pc = "saveTasks"])
       /\ UNCHANGED <<reqs, replans>>

\* await saveTasks(userEmail, tasksToSave)
SaveNew(p) ==
    LET r == runs[p]
    IN /\ r.pc = "saveTasks"
       /\ SetWorld(saveTasks(World, "demo", r.newTasks, {}).w)
       /\ RunStep(p, [r EXCEPT !.pc = "updateOnboarding", !.result = "replanned"])
       /\ UNCHANGED <<reqs, replans>>

\* for (const entry of activeEntries) await updateOnboarding(...), in the try
\* block and in its catch block
Stamp(p) ==
    LET r == runs[p]
    IN /\ r.pc = "updateOnboarding"
       /\ SetWorld(MarkReplanned(World, "demo", r.activeEntries, r.todayStr, FALSE))
       /\ RunStep(p, Finished(r, r.result))
       /\ UNCHANGED <<reqs, replans>>

InitOverlap ==
    Start({Len(ContainerOrder)},
          [headers |-> {Token("demo")}, emails |-> {}, faults |-> FALSE,
           budget |-> MaxOverlapReqs])

NextOverlap ==
    \/ NextDay
    \/ PostOnboarding
    \/ \E p \in Runs : EnsureOptimalPlan(p)
    \/ \E p \in Runs : ReadPlans(p)
    \/ \E p \in Runs : AskGemini(p)
    \/ \E p \in Runs : DeletePending(p)
    \/ \E p \in Runs : SaveNew(p)
    \/ \E p \in Runs : Stamp(p)

SpecOverlap == InitOverlap /\ [][NextOverlap]_vars

\* ------------------------------------------------- parseGeminiJson on its own
RawTokens == {"[", "]", "{", "}", "1", "q", "f"}

RawTexts == UNION {[1..n -> RawTokens] : n \in 0..MaxLen}

\* the text between a ```json line and a closing ``` line
Fenced(t) == <<"f", "json", "ws">> \o t \o <<"ws", "f">>

Texts == RawTexts \cup {Fenced(t) : t \in RawTexts}

ParseGeminiJson ==
    /\ reqs < cfg.budget
    /\ reqs' = reqs + 1
    /\ \E text \in Texts :
          last' = [op |-> "parseGeminiJson", text |-> text, result |-> parseGeminiJson(text)]
    /\ UNCHANGED <<today, containers, cosmos, memoryStore, nextId, replans, gemini, runs,
                   cfg>>

InitParse ==
    Start({0}, [headers |-> {}, emails |-> {}, faults |-> FALSE, budget |-> MaxParses])

NextParse == ParseGeminiJson

SpecParse == InitParse /\ [][NextParse]_vars

\* ------------------------------------------------- callGeminiWithRetry on its own
GeminiStep(c) ==
    /\ gemini' = c
    /\ UNCHANGED <<today, containers, cosmos, memoryStore, nextId, last, replans, runs, cfg>>

\* a caller calls callGeminiWithRetry, with the default maxRetries or a smaller one
CallGemini ==
    /\ gemini.pc \in {"idle", "done"}
    /\ reqs < cfg.budget
    /\ reqs' = reqs + 1
    /\ \E maxRetries \in 0..DefaultMaxRetries :
          GeminiStep([NoCall EXCEPT !.pc = "loop", !.maxRetries = maxRetries])

\* while (retryCount <= maxRetries); after the loop the function returns undefined
LoopTest ==
    /\ gemini.pc = "loop"
    /\ UNCHANGED reqs
    /\ IF gemini.retryCount <= gemini.maxRetries
       THEN GeminiStep([gemini EXCEPT !.pc = "try"])
       ELSE GeminiStep(Ended(gemini, "undefined", NoError))

\* model.generateContent answers, or throws an error with some message
GenerateContent ==
    /\ gemini.pc = "try"
    /\ UNCHANGED reqs
    /\ LET c == [gemini EXCEPT !.attempts = @ + 1]
       IN \/ GeminiStep(Ended(c, "text", NoError))
          \/ \E message \in ErrorMessages :
                LET error == GeminiError(message, c.attempts)
                IN GeminiStep(onError([c EXCEPT !.errors = Append(@, error)], error))

\* the backoff has passed: retryCount++
Backoff ==
    /\ gemini.pc = "wait"
    /\ UNCHANGED reqs
    /\ GeminiStep([gemini EXCEPT !.pc = "loop", !.retryCount = @ + 1])

InitGemini ==
    Start({0}, [headers |-> {}, emails |-> {}, faults |-> FALSE,
                budget |-> MaxGeminiCalls])

NextGemini ==
    \/ CallGemini
    \/ LoopTest
    \/ GenerateContent
    \/ Backoff

SpecGemini == InitGemini /\ [][NextGemini]_vars

\* ------------------------------------------------- the data layer on its own
\* A write of the data layer is called: n records, of which those with an index in
\* failing meet a Cosmos create that throws; ret: what the caller gets back.
Called(op, kind, userEmail, n, failing, w, ret, threw) ==
    /\ reqs < cfg.budget
    /\ reqs' = reqs + 1
    /\ SetWorld(w)
    /\ last' = [op |-> op, kind |-> kind, email |-> userEmail, count |-> n,
                failing |-> failing, ret |-> ret, threw |-> threw]
    /\ UNCHANGED <<today, replans, gemini, runs, cfg>>

CallCreateUser ==
    \E email \in cfg.emails, fault \in BOOLEAN :
        LET r == createUser(World, email, fault)
        IN Called("createUser", "users", email, 1, IF fault THEN {1} ELSE {},
                  r.w, <<r.ret>>, r.threw)

CallCreateOnboarding ==
    \E email \in cfg.emails, plan \in PlanInputs, fault \in BOOLEAN :
        LET r == createOnboarding(World, email, plan.mode, plan.subject, plan.examDate,
                                  today, fault)
        IN Called("createOnboarding", "onboarding", email, 1, IF fault THEN {1} ELSE {},
                  r.w, <<r.ret>>, r.threw)

CallSaveTasks ==
    \E email \in cfg.emails, tasks \in TaskLists :
        \E failing \in SUBSET (1..Len(tasks)) :
            LET r == saveTasks(World, email, tasks, failing)
            IN Called("saveTasks", "tasks", email, Len(tasks), failing, r.w, r.ret, r.threw)

CallSaveQuizResult ==
    \E email \in cfg.emails, passed \in BOOLEAN, fault \in BOOLEAN :
        LET r == saveQuizResult(World, email, [subject |-> "Math", passed |-> passed], fault)
        IN Called("saveQuizResult", "quizResults", email, 1, IF fault THEN {1} ELSE {},
                  r.w, <<r.ret>>, r.threw)

InitData ==
    Start(0..Len(ContainerOrder),
          [headers |-> {}, emails |-> Emails, faults |-> TRUE, budget |-> MaxCalls])

NextData ==
    \/ CallCreateUser
    \/ CallCreateOnboarding
    \/ CallSaveTasks
    \/ CallSaveQuizResult

SpecData == InitData /\ [][NextData]_vars

\* A read of the data layer is called; fault: its Cosmos query throws
CallGetTasks ==
    \E email \in cfg.emails, fault \in BOOLEAN :
        Called("getTasks", "tasks", email, 0, IF fault THEN {1} ELSE {},
               World, getTasks(World, email, fault), FALSE)

CallGetOnboarding ==
    \E email \in cfg.emails, fault \in BOOLEAN :
        Called("getOnboarding", "onboarding", email, 0, IF fault THEN {1} ELSE {},
               World, getOnboarding(World, email, fault), FALSE)

\* writes followed by reads, for every pattern of Cosmos calls that throw
InitReads ==
    Start({0, Len(ContainerOrder)},
          [headers |-> {}, emails |-> Emails, faults |-> TRUE, budget |-> MaxReadCalls])

NextReads ==
    \/ CallCreateOnboarding
    \/ CallSaveTasks
    \/ CallGetOnboarding
    \/ CallGetTasks

SpecReads == InitReads /\ [][NextReads]_vars

\* ------------------------------------------------------------------ claims
DataWrites == {"createUser", "createOnboarding", "saveTasks", "saveQuizResult"}

\* C7: createUser, createOnboarding, saveTasks and saveQuizResult never throw, and
\* every record whose container is not initialised or whose Cosmos create throws
\* is in the in-memory store (and not in Cosmos) and is returned to the caller.
C7_WritesFallBackToMemory ==
    last.op \in DataWrites =>
        /\ ~last.threw
        /\ Len(last.ret) = last.count
        /\ \A i \in 1..last.count :
              (last.kind \notin containers \/ i \in last.failing) =>
                  /\ last.ret[i] \in Range(memoryStore[last.kind])
                  /\ last.ret[i] \notin Range(cosmos[last.kind])
                  /\ last.ret[i].id = nextId - 1 - (last.count - i)

\* C7's case: a saveTasks of two tasks whose first Cosmos create throws and second
\* succeeds, with the tasks container initialised
C7_Witness ==
    /\ last.op = "saveTasks"
    /\ "tasks" \in containers
    /\ last.count = 2
    /\ last.failing = {1}
    /\ last.ret[1] \in Range(memoryStore.tasks)
    /\ last.ret[2] \in Range(cosmos.tasks)

\* the records a user has in Cosmos DB and in the in-memory store together
StoredPlans(w, e) ==
    Range(OfUser(w.cosmos.onboarding, e)) \cup Range(OfUser(w.memoryStore.onboarding, e))

StoredTasks(w, e) ==
    Range(OfUser(w.cosmos.tasks, e)) \cup Range(OfUser(w.memoryStore.tasks, e))

StoredUsers(w, e) ==
    {<<"cosmos", i>> : i \in {j \in 1..Len(w.cosmos.users) : w.cosmos.users[j].email = e}}
    \cup {<<"memory", i>> : i \in {j \in 1..Len(w.memoryStore.users) :
                                            w.memoryStore.users[j].email = e}}

ActivePlans(w, e, todayStr) == {p \in StoredPlans(w, e) : IsActive(p, todayStr)}

\* C1: with the user's set of plans unchanged, the non-forced calls of
\* ensureOptimalPlan of one day call the LLM at most once; the later calls of that
\* day are skipped.
C1_AtMostOneReplanPerDay == \A e \in Emails : replans[e] <= 1

\* C2: when the LLM call or the parse of its answer throws inside
\* ensureOptimalPlan, every active plan of the user is stamped lastReplanned =
\* today and no task is deleted or added.
C2_FailedReplanIsStamped ==
    [][last'.plan = "aiError"
       => /\ \A p \in ActivePlans(World', last'.email, today') : p.lastReplanned = today'
          /\ UNCHANGED <<cosmos.tasks, memoryStore.tasks>>]_vars

\* C3: when ensureOptimalPlan replans (redistributed: true, count: n), all n tasks
\* of the LLM are stored for the calling user and every active plan of the user
\* has lastReplanned = today.
C3_ReplanStoresAndStamps ==
    [][last'.plan = "replanned"
       => /\ Cardinality({t \in StoredTasks(World', last'.email) : t.id >= nextId})
                = Len(last'.llm.tasks)
          /\ \A i \in 1..Len(last'.llm.tasks) :
                \E t \in StoredTasks(World', last'.email) :
                    /\ t.id >= nextId
                    /\ t.subject = last'.llm.tasks[i].subject
                    /\ t.date = last'.llm.tasks[i].date
                    /\ t.sessionType = last'.llm.tasks[i].sessionType
          /\ \A p \in ActivePlans(World', last'.email, today') : p.lastReplanned = today']_vars

\* C4: every call of markTopicAsWeak (a quiz evaluated with a score of at most
\* half) for a user with an active plan runs a replanning pass, which calls the LLM.
C4_WeakTopicReplans ==
    (/\ last.op = "POST /api/quiz/evaluate"
     /\ last.plan # "none"
     /\ ActivePlans(World, last.email, today) # {})
    => CalledLlm(last.plan)

\* C5: after a successful POST /api/user/mood by a user with an active plan a
\* replanning pass has run, whatever was handled earlier that day.
C5_MoodReplans ==
    (/\ last.op = "POST /api/user/mood"
     /\ last.status = 200
     /\ ActivePlans(World, last.email, today) # {})
    => CalledLlm(last.plan)

\* C6: the moodHistory of every stored user record holds at most one entry per date.
C6_OneMoodPerDay ==
    \A u \in Range(cosmos.users) \cup Range(memoryStore.users) :
        \A i, j \in 1..Len(u.moodHistory) :
            i # j => u.moodHistory[i].date # u.moodHistory[j].date

\* C9: there is at most one user record per email, in Cosmos DB and the in-memory
\* store together.
C9_OneUserPerEmail == \A e \in Emails : Cardinality(StoredUsers(World, e)) <= 1

\* the generated task lacks one of the fields the claim lists
C10_Lacks(task) ==
    \/ task.subject = Null
    \/ task.topic = Null
    \/ task.subtopic = Null
    \/ task.duration = Null
    \/ task.date = 0
    \/ task.sessionType = Null

\* the cases of C10: the generation throws, its result is not a non-empty array, or
\* a task of it lacks a field
C10_Fails(llm) ==
    \/ llm.kind # "array"
    \/ llm.tasks = <<>>
    \/ \E i \in 1..Len(llm.tasks) : C10_Lacks(llm.tasks[i])

\* C10: POST /api/study-plan/generate answers 500 in each of these cases, and
\* when it answers 500 neither a task nor an onboarding record (nor anything else)
\* has been stored.
C10_FailedGenerationStoresNothing ==
    [][(last'.op = "POST /api/study-plan/generate" /\ last'.auth = "token")
       => /\ C10_Fails(last'.llm) => last'.status = 500
          /\ last'.status = 500 => UNCHANGED <<containers, cosmos, memoryStore, nextId>>
          /\ last'.status = 200 =>
                /\ StoredTasks(World', last'.email) # StoredTasks(World, last'.email)
                /\ StoredPlans(World', last'.email) # StoredPlans(World, last'.email)]_vars

\* C10's case: a generated task lacks its topic while tasks of the user are stored
C10_Witness ==
    /\ last.op = "POST /api/study-plan/generate"
    /\ last.status = 500
    /\ last.llm.kind = "array"
    /\ \E i \in 1..Len(last.llm.tasks) : last.llm.tasks[i].topic = Null
    /\ StoredTasks(World, last.email) # {}

ProtectedEndpoints ==
    {"GET /api/user/profile", "POST /api/user/mood", "GET /api/onboarding",
     "POST /api/onboarding", "GET /api/tasks", "POST /api/tasks",
     "PATCH /api/tasks/:id/progress", "GET /api/study-plan/active",
     "POST /api/study-plan/generate", "POST /api/quiz/evaluate", "POST /api/resources",
     "GET /api/insights"} \cup LlmEndpoints

\* C8: a request to any endpoint other than signup and login whose Authorization
\* header is missing, lacks the 'Bearer ' prefix or carries a token that is not
\* base64-encoded JSON is answered 401, calls no data-layer function and no LLM,
\* and leaves the stored data as it was.
C8_UnauthorizedTouchesNothing ==
    [][(/\ last'.op \in ProtectedEndpoints
        /\ last'.auth \in {"missing", "noBearer", "notJson"})
       => /\ last'.status = 401
          /\ last'.dbCalls = {}
          /\ last'.llmCalls = 0
          /\ UNCHANGED <<containers, cosmos, memoryStore, nextId, replans>>]_vars

\* C8's case: tasks are posted with a token that is not JSON while a plan is stored
C8_Witness ==
    /\ last.op = "POST /api/tasks"
    /\ last.auth = "notJson"
    /\ last.status = 401
    /\ cosmos.onboarding # <<>>

\* the errors after which callGeminiWithRetry waited and tried again
C11_Retried == {i \in 1..Len(gemini.errors) : i <= Len(gemini.waits)}

\* what C11 says of the attempts, the retries and the waits
C11_Attempts ==
    /\ gemini.attempts <= gemini.maxRetries + 1
    /\ gemini.pc = "done" => gemini.result \in {"text", "threw"}
    /\ \A i \in C11_Retried :
          /\ isTransientError(gemini.errors[i].message)
          /\ i - 1 < gemini.maxRetries
          /\ gemini.waits[i] = BackoffBase * (2 ^ (i - 1))

\* C11 as stated: callGeminiWithRetry ends by returning the text or throwing,
\* after at most maxRetries + 1 attempts; it retries only after a transient error
\* while retryCount < maxRetries, waiting 2000 * 2^retryCount ms; and what it
\* throws is the last attempt's error, unchanged, which is an error that is not
\* transient or the error of the last attempt allowed.
C11_RethrowsUnchanged ==
    /\ C11_Attempts
    /\ (gemini.pc = "done" /\ gemini.result = "threw") =>
          /\ gemini.thrown = gemini.errors[Len(gemini.errors)]
          /\ \/ ~isTransientError(gemini.thrown.message)
             \/ gemini.attempts = gemini.maxRetries + 1

\* C11 amended: as stated, except that an error whose message matches a quota
\* pattern is never retried and is replaced by the 'Daily AI Quota Exceeded' error.
C11_RethrowsUnlessQuota ==
    /\ C11_Attempts
    /\ \A i \in C11_Retried : ~isQuotaError(gemini.errors[i].message)
    /\ (gemini.pc = "done" /\ gemini.result = "threw") =>
          LET error == gemini.errors[Len(gemini.errors)]
          IN IF isQuotaError(error.message) THEN gemini.thrown = QuotaExceeded
             ELSE /\ gemini.thrown = error
                  /\ \/ ~isTransientError(error.message)
                     \/ gemini.attempts = gemini.maxRetries + 1

\* C11's case: the default call fails three times with transient errors and
\* throws the third after waiting 2 s and 4 s
C11_Witness ==
    /\ gemini.pc = "done"
    /\ gemini.maxRetries = DefaultMaxRetries
    /\ gemini.attempts = 3
    /\ gemini.waits = <<2000, 4000>>
    /\ gemini.result = "threw"
    /\ gemini.thrown = GeminiError({"503"}, 3)

\* C12: an attempt that fails with a message containing '429', 'Quota' or 'limit'
\* is the last one: the call throws the 'Daily AI Quota Exceeded' error at once,
\* without waiting, also when retries remain and the message matches a transient
\* pattern too.
C12_QuotaIsNeverRetried ==
    \A i \in 1..Len(gemini.errors) :
        isQuotaError(gemini.errors[i].message) =>
            /\ i = Len(gemini.errors)
            /\ gemini.attempts = i
            /\ Len(gemini.waits) = i - 1
            /\ gemini.pc = "done"
            /\ gemini.result = "threw"
            /\ gemini.thrown = QuotaExceeded

\* C12's case: the first attempt fails with '429' and '503' in its message while
\* two retries remain
C12_Witness ==
    /\ gemini.maxRetries = DefaultMaxRetries
    /\ gemini.errors = <<GeminiError({"429", "503"}, 1)>>
    /\ gemini.result = "threw"
    /\ gemini.thrown = QuotaExceeded

\* the revisions C13 expects for the tasks: <<i, k>> for a copy of task i dated k
\* days later
C13_Revisions(tasks, exam) ==
    {<<i, k>> \in (1..Len(tasks)) \X {3, 6} :
        /\ tasks[i].sessionType \in {"Core Learning", "Learning"}
        /\ tasks[i].date # 0
        /\ tasks[i].date + k < exam}

\* the place of a revision among the added tasks: task by task, day 4 before day 7
C13_Place(q, revisions) ==
    1 + Cardinality({r \in revisions : r[1] < q[1] \/ (r[1] = q[1] /\ r[2] < q[2])})

\* C13: when the exam is at least 14 days away, applySpacedRepetition returns the
\* input tasks unchanged and in order, followed by exactly the revisions of the
\* learning tasks dated strictly before the exam: a 'Reinforcement Revision' copy 3
\* days after the task and a 'Deep Revision' copy 6 days after it, which keep the
\* task's other fields.
C13_FixedRevisions ==
    (/\ last.op = "applySpacedRepetition"
     /\ last.examDate # 0
     /\ last.examDate - last.today >= 14)
    => LET revisions == C13_Revisions(last.tasks, last.examDate)
           n == Len(last.tasks)
       IN /\ Len(last.result) = n + Cardinality(revisions)
          /\ SubSeq(last.result, 1, n) = last.tasks
          /\ \A q \in revisions :
                last.result[n + C13_Place(q, revisions)] =
                    [last.tasks[q[1]] EXCEPT
                        !.date = @ + q[2],
                        !.sessionType = IF q[2] = 3 THEN "Reinforcement Revision"
                                        ELSE "Deep Revision"]

\* C13's case: the exam is exactly 14 days away; the first task gets both revisions,
\* the second only the one of day 4
C13_Witness ==
    /\ last.op = "applySpacedRepetition"
    /\ last.examDate - last.today = 14
    /\ Len(last.tasks) = 2
    /\ Len(last.result) = 5
    /\ last.result[5].sessionType = "Reinforcement Revision"
    /\ last.result[5].date = last.examDate - 1

\* C14: applySpacedRepetition returns exactly the input task list when the exam
\* is fewer than 14 days away, and also when there is no exam date.
C14_OnlyIfTimeAllows ==
    (/\ last.op = "applySpacedRepetition"
     /\ \/ last.examDate = 0
        \/ last.examDate - last.today < 14)
    => last.result = last.tasks

\* C14's case: the exam is 13 days away and a learning task is dated 4 days before it
C14_Witness ==
    /\ last.op = "applySpacedRepetition"
    /\ last.examDate - last.today = 13
    /\ \E i \in 1..Len(last.tasks) :
          /\ last.tasks[i].sessionType = "Core Learning"
          /\ last.tasks[i].date = last.examDate - 4
    /\ last.result = last.tasks

\* what the text is after the removal of the fences
C15_Cleaned(text) == Trim(RemoveFences(RemoveJsonFences(text)))

\* the span from the first open to the last close; <<>> when there is none
C15_Span(t, open, close) ==
    LET a == IndexOf(t, open)
        b == LastIndexOf(t, close)
    IN IF a # 0 /\ b # 0 /\ a <= b THEN SubSeq(t, a, b) ELSE <<>>

\* the span C15 names: the bracket span when a '[' and a ']' exist and the '['
\* comes before any '{', else the brace span
C15_NamedSpan(t) ==
    IF /\ IndexOf(t, "[") # 0
       /\ LastIndexOf(t, "]") # 0
       /\ (IndexOf(t, "{") = 0 \/ IndexOf(t, "[") < IndexOf(t, "{"))
    THEN C15_Span(t, "[", "]")
    ELSE C15_Span(t, "{", "}")

C15_Expected(text) ==
    LET cleaned == C15_Cleaned(text)
        span == C15_NamedSpan(cleaned)
    IN IF text = <<>> THEN ParsedNull
       ELSE IF JsonParse(cleaned).kind = "value" THEN JsonParse(cleaned)
       ELSE IF span # <<>> /\ JsonParse(span).kind = "value" THEN JsonParse(span)
       ELSE FailedToParse

\* the text is a JSON array or object between a ```json line and a ``` line
C15_Unfenced(text) == SubSeq(text, 4, Len(text) - 2)

C15_FencedJson(text) ==
    /\ Len(text) > 5
    /\ text = Fenced(C15_Unfenced(text))
    /\ C15_Unfenced(text)[1] \in {"[", "{"}
    /\ JsonParse(C15_Unfenced(text)).kind = "value"

\* C15: parseGeminiJson returns null for an empty text, else the parse of the
\* whole text without its fences when that is JSON, else the parse of the span
\* from the first '[' to the last ']' (a '[' coming before any '{') or of the
\* span from the first '{' to the last '}', and throws 'Failed to parse AI
\* response:' when there is no such span or it does not parse; a JSON array or
\* object inside a ```json fence comes back as the same value.
C15_ParsesAsClaimed ==
    last.op = "parseGeminiJson" =>
        /\ last.result = C15_Expected(last.text)
        /\ C15_FencedJson(last.text) =>
               last.result = [kind |-> "value", value |-> C15_Unfenced(last.text)]

\* the two parts of C15 taken apart, to tell which inputs break which
C15_SpansAsClaimed ==
    last.op = "parseGeminiJson" => last.result = C15_Expected(last.text)

C15_FenceRoundTrips ==
    (last.op = "parseGeminiJson" /\ C15_FencedJson(last.text)) =>
        last.result = [kind |-> "value", value |-> C15_Unfenced(last.text)]

\* the executions of ensureOptimalPlan that have begun
C16_Begun == {p \in Runs : runs[p].pc # "idle"}

\* demo's stored pending tasks are those of the LLM result tasks, in its order
C16_StoredIs(tasks) ==
    LET pending == SelectSeq(OfUser(cosmos.tasks, "demo"), LAMBDA t : t.status = "pending")
    IN /\ Len(pending) = Len(tasks)
       /\ \A i \in 1..Len(tasks) :
             pending[i] = Merge(tasks[i], [userEmail |-> "demo", id |-> pending[i].id])

\* C16: when two executions of ensureOptimalPlan for one user have run on the
\* same day, overlapping or not, and each has either replanned or skipped, at
\* most one of them has replanned, and the user's stored pending tasks are the
\* tasks of that one LLM result.
C16_OverlapReplansOnce ==
    (/\ C16_Begun = Runs
     /\ \A p \in Runs : runs[p].pc = "done" /\ runs[p].result \in {"replanned", "skipped"}
     /\ \A p, q \in Runs : runs[p].todayStr = runs[q].todayStr
     /\ \E p \in Runs : runs[p].result = "replanned")
    => /\ Cardinality({p \in Runs : runs[p].result = "replanned"}) <= 1
       /\ \E p \in Runs : runs[p].result = "replanned" /\ C16_StoredIs(runs[p].newTasks)

\* the second half alone: the stored pending tasks are those of one LLM result
C16_NeverTheUnion ==
    (/\ \A p \in Runs : runs[p].pc = "done" /\ runs[p].result \in {"replanned", "skipped"}
     /\ \E p \in Runs : runs[p].result = "replanned")
    => \E p \in Runs : runs[p].result = "replanned" /\ C16_StoredIs(runs[p].newTasks)

\* the records of a kind written for a user so far, none of which is deleted
\* under SpecReads: those of both stores
C17_Written(kind, userEmail) ==
    Range(OfUser(cosmos[kind], userEmail)) \cup Range(OfUser(memoryStore[kind], userEmail))

\* C17: every task that saveTasks returned for a user is in the result of a later
\* getTasks for the user, and every plan that createOnboarding returned is in the
\* result of a later getOnboarding, whichever Cosmos calls threw in between.
C17_ReadYourWrites ==
    last.op \in {"getTasks", "getOnboarding"} =>
        C17_Written(last.kind, last.email) \subseteq Range(last.ret)

====
